---- MODULE Spec2Model ----
(***************************************************************************)
(* FileManager: recursive discovery of files under a path, filtering by an *)
(* extension allow-list, and hashing.  Two surfaces are modelled: the      *)
(* command-line tool (services/api/process_file.py) and the HTTP endpoints *)
(* GET /process-file/ and GET /process-folder                              *)
(* (services/api/src/process_file.py).                                     *)
(*                                                                         *)
(* A file name is a sequence of one-character strings, a path is a         *)
(* sequence of names (absolute, POSIX separators), and the file system is  *)
(* a function from the existing paths to their kind.                       *)
(***************************************************************************)
EXTENDS Naturals, Sequences, FiniteSets, TLC

VARIABLES
    fs,               \* the file system: existing path -> "dir" | "file" | "other"
    pc,               \* position of the run
    surface,          \* "none" | "cli" | "process_file" | "process_folder" | "ext"
    input_path,       \* the path handed to the surface
    all_found_files,  \* main: result of get_all_files_recursive
    files_to_process, \* main: the filtered list
    idx,              \* main: position of the hashing loop in files_to_process
    open_file,        \* main: the files currently open for hashing
    out,              \* what was printed, one record per message
    attempts,         \* every open() made for hashing, in order
    closed,           \* main: every file closed after hashing, in order
    failed,           \* the files whose open or read raised
    status,           \* HTTP status of the response (0: no response)
    body,             \* HTTP response body
    stat_calls,       \* exists()/is_file()/is_dir() calls made by the handler
    preview,          \* process_file: what open() and f.read(100) would do
    ext_name,         \* extension classification: the file name under test
    ext_result        \* extension classification: <<extension, accepted>>

vars == << fs, pc, surface, input_path, all_found_files, files_to_process, idx,
           open_file, out, attempts, closed, failed, status, body,
           stat_calls, preview, ext_name, ext_result >>

-----------------------------------------------------------------------------
(* Bounds of the model.                                                    *)

\* entries the environment creates in the file system
MaxEntries == 3

\* depth of an entry below the file-system root
MaxDepth == 3

\* length of a file name in the extension classification
MaxNameLen == 4

-----------------------------------------------------------------------------
(* Configuration.                                                          *)

SUPPORTED_EXTENSIONS ==
    { <<"p", "d", "f">>, <<"d", "o", "c", "x">>, <<"d", "o", "c">>,
      <<"r", "t", "f">>, <<"o", "d", "t">>, <<"t", "x", "t">>,
      <<"m", "d">>, <<"p", "p", "t", "x">>, <<"p", "p", "t">>,
      <<"x", "l", "s", "x">>, <<"x", "l", "s">>, <<"c", "s", "v">>,
      <<"p", "y">>, <<"s", "q", "l">>, <<"j", "s">>,
      <<"t", "s">>, <<"c", "s">>, <<"j", "a", "v", "a">>,
      <<"g", "o">>, <<"s", "h">>, <<"p", "s", "1">>,
      <<"j", "s", "o", "n">>, <<"x", "m", "l">>, <<"y", "a", "m", "l">>,
      <<"y", "m", "l">>, <<"t", "o", "m", "l">>, <<"h", "t", "m", "l">>,
      <<"h", "t", "m">>, <<"e", "m", "l">>, <<"m", "s", "g">>,
      <<"v", "t", "t">>, <<"s", "r", "t">> }

UpperCase == <<"A", "B", "C", "D", "E", "F", "G", "H", "I", "J", "K", "L", "M", "N", "O", "P", "Q", "R", "S", "T", "U", "V", "W", "X", "Y", "Z">>

LowerCase == <<"a", "b", "c", "d", "e", "f", "g", "h", "i", "j", "k", "l", "m", "n", "o", "p", "q", "r", "s", "t", "u", "v", "w", "x", "y", "z">>

-----------------------------------------------------------------------------
(* Strings: the library calls the extension test is made of.               *)

\* str.lower() on one character
LowerChar(c) ==
    IF \E i \in 1..Len(UpperCase) : UpperCase[i] = c
    THEN LowerCase[CHOOSE i \in 1..Len(UpperCase) : UpperCase[i] = c]
    ELSE c

\* str.lower()
lower(s) == [i \in 1..Len(s) |-> LowerChar(s[i])]

\* str.rfind('.'), 1-based; 0 when there is no dot (Python: 0-based, -1)
rfind_dot(s) ==
    IF \E i \in 1..Len(s) : s[i] = "."
    THEN CHOOSE i \in 1..Len(s) : s[i] = "." /\ \A j \in (i+1)..Len(s) : s[j] # "."
    ELSE 0

\* str.lstrip('.'): every leading dot is removed
RECURSIVE lstrip_dot(_)
lstrip_dot(s) ==
    IF s # <<>> /\ Head(s) = "." THEN lstrip_dot(Tail(s)) ELSE s

\* PurePath.suffix of a name: name[i:] for the last dot at 0-based index i
\* with 0 < i < len(name) - 1, else ''
suffix(name) ==
    LET i == rfind_dot(name)
    IN  IF 1 < i /\ i < Len(name) THEN SubSeq(name, i, Len(name)) ELSE <<>>

\* PurePath.name: the final component ('' for the root)
name_of(path) == IF path = <<>> THEN <<>> ELSE path[Len(path)]

\* the extension without .lower()
file_extension_keeps_case(path) == lstrip_dot(suffix(name_of(path)))

\* file_extension = path.suffix.lstrip('.').lower()
file_extension(path) == lower(lstrip_dot(suffix(name_of(path))))

\* file_extension in SUPPORTED_EXTENSIONS
is_supported(path) == file_extension(path) \in SUPPORTED_EXTENSIONS

\* the substring test  ".." in s
has_dotdot(s) == \E i \in 1..(Len(s) - 1) : s[i] = "." /\ s[i+1] = "."

-----------------------------------------------------------------------------
(* Names and paths of the model.                                           *)

DotDot == <<".", ".">>

N_srv == <<"s", "r", "v">>

N_etc == <<"e", "t", "c">>

N_a_docx == <<"a", ".", "d", "o", "c", "x">>

N_b_exe == <<"b", ".", "e", "x", "e">>

N_R_PDF == <<"R", ".", "P", "D", "F">>

N_dot_md == <<".", "m", "d">>

N_x_dd_md == <<"x", ".", ".", "m", "d">>

N_fifo_md == <<"f", ".", "m", "d">>

\* names the environment gives to directories, regular files and
\* non-regular entries (devices, sockets, fifos)
DirNames == { N_srv, N_etc }

FileNames == { N_a_docx, N_b_exe, N_R_PDF, N_dot_md, N_x_dd_md }

OtherNames == { N_fifo_md }

AllNames == DirNames \cup FileNames \cup OtherNames

\* the directory the service is meant to serve
IntendedRoot == << N_srv >>

IsPrefix(a, b) == Len(a) <= Len(b) /\ SubSeq(b, 1, Len(a)) = a

parent(path) == IF path = <<>> THEN <<>> ELSE SubSeq(path, 1, Len(path) - 1)

-----------------------------------------------------------------------------
(* The file system as the handlers see it.                                 *)

\* Resolution of a path by the operating system, component by component:
\* the path it names, or <<"ENOENT">> when a component is missing or a
\* component that is walked through is no directory.  ".." steps to the
\* parent of a directory that exists ("/.." is "/").
RECURSIVE walk(_, _)
walk(cur, rest) ==
    IF cur \notin DOMAIN fs THEN << <<"ENOENT">> >>
    ELSE IF rest = <<>> THEN cur
    ELSE IF fs[cur] # "dir" THEN << <<"ENOENT">> >>
    ELSE IF Head(rest) = DotDot THEN walk(parent(cur), Tail(rest))
    ELSE walk(Append(cur, Head(rest)), Tail(rest))

\* the kind of the entry a path names: "absent" | "dir" | "file" | "other"
stat(path) ==
    LET t == walk(<<>>, path)
    IN  IF t \in DOMAIN fs THEN fs[t] ELSE "absent"

\* Path.exists()
exists(path) == stat(path) # "absent"

\* Path.is_file()
is_file(path) == stat(path) = "file"

\* Path.is_dir()
is_dir(path) == stat(path) = "dir"

\* Path.resolve() of an absolute path, no symbolic links: ".." components
\* are removed together with the component before them, whether or not
\* that component exists
RECURSIVE resolve_from(_, _)
resolve_from(acc, rest) ==
    IF rest = <<>> THEN acc
    ELSE IF Head(rest) = DotDot THEN resolve_from(parent(acc), Tail(rest))
    ELSE resolve_from(Append(acc, Head(rest)), Tail(rest))

resolve(path) == resolve_from(<<>>, path)

\* str(path): the components behind "/" separators
RECURSIVE str(_)
str(path) ==
    IF path = <<>> THEN <<>> ELSE <<"/">> \o Head(path) \o str(Tail(path))

\* ".." in str(input_path.resolve())
traversal_detected(path) == has_dotdot(str(resolve(path)))

\* the order in which a directory is listed is the operating system's; the
\* model fixes one
RECURSIVE SetToSeq(_)
SetToSeq(S) ==
    IF S = {} THEN <<>>
    ELSE LET x == CHOOSE y \in S : TRUE IN <<x>> \o SetToSeq(S \ {x})

\* os.scandir(d): the entries directly in directory d
scandir(d) == SetToSeq({ q \in DOMAIN fs : q # <<>> /\ parent(q) = d })

\* glob('*') in place of rglob('*'): the directory itself only
rglob_flat(d) == scandir(d)

\* root.rglob('*'): every entry of the directory, then the same for each
\* of its subdirectories
RECURSIVE rglob(_), rglob_each(_)
rglob(d) ==
    scandir(d) \o rglob_each(SelectSeq(scandir(d), LAMBDA q : fs[q] = "dir"))

rglob_each(ds) ==
    IF ds = <<>> THEN <<>> ELSE rglob(Head(ds)) \o rglob_each(Tail(ds))

\* [p for p in root.rglob('*') if p.is_file()]
get_all_files_recursive(root_folder_path) ==
    SelectSeq(rglob(root_folder_path), is_file)

\* no filter at all: every found file is kept
filter_nothing(found) == found

\* lines 68-71: the filter loop: the found files whose extension is
\* supported, in order
filter_supported(found) == SelectSeq(found, is_supported)

-----------------------------------------------------------------------------
(* Printed messages and responses.                                         *)

Msg(kind, path) == [kind |-> kind, path |-> path]

\* the outcomes of opening and reading one file
Outcomes == { "ok", "IOError", "Exception" }

\* what the try/except around one file prints for an outcome
hash_report(path, outcome) ==
    IF outcome = "ok" THEN Msg("hash", path)
    ELSE IF outcome = "IOError" THEN Msg("error_processing", path)
    ELSE Msg("unexpected_error", path)

NoBody == [kind |-> "none"]

-----------------------------------------------------------------------------
(* The environment: entries created before the run starts.                 *)

CanCreate(par, n) ==
    /\ pc = "setup"
    /\ par \in DOMAIN fs
    /\ fs[par] = "dir"
    /\ Len(par) < MaxDepth
    /\ Append(par, n) \notin DOMAIN fs
    /\ Cardinality(DOMAIN fs) <= MaxEntries

Create(par, n, kind) ==
    /\ fs' = (Append(par, n) :> kind) @@ fs
    /\ UNCHANGED << pc, surface, input_path, all_found_files, files_to_process,
                    idx, open_file, out, attempts, closed, failed, status, body,
                    stat_calls, ext_name, ext_result, preview >>

Mkdir == \E par \in DOMAIN fs, n \in DirNames :
    CanCreate(par, n) /\ Create(par, n, "dir")

CreateFile == \E par \in DOMAIN fs, n \in FileNames :
    CanCreate(par, n) /\ Create(par, n, "file")

Mknod == \E par \in DOMAIN fs, n \in OtherNames :
    CanCreate(par, n) /\ Create(par, n, "other")

\* the paths a run is started on: every entry, and in every directory a
\* name that may or may not exist there
InputPaths ==
    DOMAIN fs \cup
    { Append(d, n) : d \in { q \in DOMAIN fs : fs[q] = "dir" },
                     n \in { N_a_docx, N_b_exe } }

\* the same behind a detour through the parent of the intended root
DetourPaths == { IntendedRoot \o << DotDot >> \o q : q \in InputPaths }

-----------------------------------------------------------------------------
(* Command line: main().                                                   *)

Entry(printed, files, next) == [out |-> printed, files |-> files, pc |-> next]

\* a classification that looks at the extension before it looks for the path
main_entry_extension_first(p) ==
    IF ~is_dir(p) /\ ~is_supported(p) THEN
        Entry(<< Msg("type_not_supported", << file_extension(p) >>) >>, <<>>, "done")
    ELSE IF ~exists(p) THEN
        Entry(<< Msg("path_not_found", p) >>, <<>>, "done")
    ELSE IF is_file(p) THEN
        Entry(<< Msg("processing_single_file", p), Msg("hashing_header", <<>>) >>,
              << p >>, "hash")
    ELSE IF is_dir(p) THEN
        Entry(<< Msg("processing_folder", p) >>, <<>>, "discover")
    ELSE
        Entry(<< Msg("not_file_or_directory", p) >>, <<>>, "done")

\* lines 41-64, 81-87: the classification of the input path at entry: what
\* is printed, the list to hash, and where the run goes on
main_entry(p) ==
    IF ~exists(p) THEN
        Entry(<< Msg("path_not_found", p) >>, <<>>, "done")
    ELSE IF is_file(p) THEN
        IF is_supported(p) THEN
            Entry(<< Msg("processing_single_file", p), Msg("hashing_header", <<>>) >>,
                  << p >>, "hash")
        ELSE
            Entry(<< Msg("type_not_supported", << file_extension(p) >>) >>, <<>>, "done")
    ELSE IF is_dir(p) THEN
        Entry(<< Msg("processing_folder", p) >>, <<>>, "discover")
    ELSE
        Entry(<< Msg("not_file_or_directory", p) >>, <<>>, "done")

\* lines 34-64, 81-87: main() up to the end of the classification
MainClassify == \E p \in InputPaths :
    /\ pc = "setup"
    /\ surface' = "cli"
    /\ input_path' = p
    /\ out' = main_entry(p).out
    /\ files_to_process' = main_entry(p).files
    /\ pc' = main_entry(p).pc
    /\ UNCHANGED << fs, all_found_files, idx, open_file, attempts, closed, failed,
                    status, body, stat_calls, ext_name, ext_result, preview >>

\* line 65: all_found_files = get_all_files_recursive(input_path)
MainDiscover ==
    /\ pc = "discover"
    /\ all_found_files' = get_all_files_recursive(input_path)
    /\ pc' = "filter"
    /\ UNCHANGED << fs, surface, input_path, files_to_process, idx, open_file,
                    out, attempts, closed, failed, status, body, stat_calls,
                    ext_name, ext_result, preview >>

\* the filter step without the check for an empty list
MainFilterNoEmptyCheck ==
    /\ pc = "filter"
    /\ files_to_process' = files_to_process \o filter_supported(all_found_files)
    /\ out' = Append(out, Msg("hashing_header", <<>>))
    /\ pc' = "hash"
    /\ UNCHANGED << fs, surface, input_path, all_found_files, idx, open_file,
                    attempts, closed, failed, status, body, stat_calls,
                    ext_name, ext_result, preview >>

\* lines 68-79 and 87: the filter loop, the empty check, the header
MainFilter ==
    /\ pc = "filter"
    /\ files_to_process' = files_to_process \o filter_supported(all_found_files)
    /\ IF files_to_process' = <<>> THEN
           /\ out' = Append(out, Msg("no_supported_files", input_path))
           /\ pc' = "done"
       ELSE
           /\ out' = Append(out, Msg("hashing_header", <<>>))
           /\ pc' = "hash"
    /\ UNCHANGED << fs, surface, input_path, all_found_files, idx, open_file,
                    attempts, closed, failed, status, body, stat_calls,
                    ext_name, ext_result, preview >>

\* the hashing loop still has a file to take
LoopHasNext == pc = "hash" /\ open_file = {} /\ idx <= Len(files_to_process)

\* line 90: open(current_file_path) succeeds
HashOpen ==
    /\ LoopHasNext
    /\ open_file' = { files_to_process[idx] }
    /\ attempts' = Append(attempts, files_to_process[idx])
    /\ UNCHANGED << fs, pc, surface, input_path, all_found_files,
                    files_to_process, idx, out, failed, status, body,
                    stat_calls, ext_name, ext_result, closed, preview >>

\* open() raises and nothing catches it: the run ends there
HashOpenFailsAborts ==
    /\ LoopHasNext
    /\ attempts' = Append(attempts, files_to_process[idx])
    /\ failed' = failed \cup { files_to_process[idx] }
    /\ pc' = "done"
    /\ UNCHANGED << fs, surface, input_path, all_found_files, files_to_process,
                    idx, open_file, out, closed, status, body, stat_calls,
                    ext_name, ext_result, preview >>

\* lines 90, 93-96: open(current_file_path) raises; the error is printed
\* and the loop goes on
HashOpenFails == \E e \in Outcomes \ {"ok"} :
    /\ LoopHasNext
    /\ attempts' = Append(attempts, files_to_process[idx])
    /\ failed' = failed \cup { files_to_process[idx] }
    /\ out' = Append(out, hash_report(files_to_process[idx], e))
    /\ idx' = idx + 1
    /\ UNCHANGED << fs, pc, surface, input_path, all_found_files,
                    files_to_process, open_file, status, body, stat_calls,
                    ext_name, ext_result, closed, preview >>

\* lines 91-92: the digest is computed and printed; the with block closes
\* the file
HashRead == \E f \in open_file :
    /\ pc = "hash"
    /\ out' = Append(out, hash_report(f, "ok"))
    /\ open_file' = {}
    /\ closed' = Append(closed, f)
    /\ idx' = idx + 1
    /\ UNCHANGED << fs, pc, surface, input_path, all_found_files,
                    files_to_process, attempts, failed, status, body,
                    stat_calls, ext_name, ext_result, preview >>

\* reading raises and the file is left open: no with block
HashReadFailsLeavesOpen == \E f \in open_file, e \in Outcomes \ {"ok"} :
    /\ pc = "hash"
    /\ idx <= Len(files_to_process)
    /\ f = files_to_process[idx]
    /\ failed' = failed \cup { f }
    /\ out' = Append(out, hash_report(f, e))
    /\ idx' = idx + 1
    /\ UNCHANGED << fs, pc, surface, input_path, all_found_files,
                    files_to_process, open_file, attempts, closed, status,
                    body, stat_calls, ext_name, ext_result, preview >>

\* lines 91, 93-96: reading raises; the with block closes the file, the
\* error is printed and the loop goes on
HashReadFails == \E f \in open_file, e \in Outcomes \ {"ok"} :
    /\ pc = "hash"
    /\ failed' = failed \cup { f }
    /\ out' = Append(out, hash_report(f, e))
    /\ open_file' = {}
    /\ closed' = Append(closed, f)
    /\ idx' = idx + 1
    /\ UNCHANGED << fs, pc, surface, input_path, all_found_files,
                    files_to_process, attempts, status, body, stat_calls,
                    ext_name, ext_result, preview >>

\* line 96: the loop is exhausted and main returns
MainReturn ==
    /\ pc = "hash"
    /\ open_file = {}
    /\ idx > Len(files_to_process)
    /\ pc' = "done"
    /\ UNCHANGED << fs, surface, input_path, all_found_files,
                    files_to_process, idx, open_file, out, attempts, closed, failed,
                    status, body, stat_calls, ext_name, ext_result, preview >>

-----------------------------------------------------------------------------
(* HTTP: GET /process-file/.                                               *)

\* urllib.parse.unquote on one name: "%2E" and "%2e" decode to "."; the
\* names of the model hold no other escape
RECURSIVE unquote_name(_)
unquote_name(n) ==
    IF n = <<>> THEN <<>>
    ELSE IF Len(n) >= 3 /\ n[1] = "%" /\ n[2] = "2" /\ n[3] \in {"E", "e"}
         THEN <<".">> \o unquote_name(SubSeq(n, 4, Len(n)))
         ELSE << n[1] >> \o unquote_name(Tail(n))

\* pathlib.Path(urllib.parse.unquote(file_path))
unquote(path) == [i \in 1..Len(path) |-> unquote_name(path[i])]

Response(st, kind, path, calls, printed) ==
    [status |-> st, body |-> Msg(kind, path), stat_calls |-> calls, out |-> printed]

\* lines 67-71: the guard, made before exists() is called
traversal_guard(path) ==
    IF traversal_detected(path)
    THEN Response(400, "traversal_detected", <<>>, <<>>, <<>>)
    ELSE [status |-> 0]

\* the extension is tested before the path is looked for
classify_file_extension_first(path, outcome) ==
    IF ~is_dir(path) /\ ~is_supported(path) THEN
        Response(400, "type_not_supported", << file_extension(path) >>, <<>>, <<>>)
    ELSE IF ~exists(path) THEN
        Response(404, "path_not_found", path, <<"exists">>, <<>>)
    ELSE IF is_dir(path) THEN
        Response(400, "is_a_directory", path, <<"exists", "is_dir">>, <<>>)
    ELSE IF outcome = "ok" THEN
        Response(200, "processed_successfully",
                 << name_of(path), file_extension(path) >>,
                 <<"exists", "is_dir">>, <<>>)
    ELSE
        Response(500, "error_processing_file", << name_of(path) >>,
                 <<"exists", "is_dir">>, <<>>)

\* lines 74-121: what the handler answers once the guard has let the path
\* through; outcome is the outcome of open() and f.read(100)
classify_file(path, outcome) ==
    IF ~exists(path) THEN
        Response(404, "path_not_found", path, <<"exists">>, <<>>)
    ELSE IF is_file(path) THEN
        IF is_supported(path) THEN
            IF outcome = "ok" THEN
                Response(200, "processed_successfully",
                         << name_of(path), file_extension(path) >>,
                         <<"exists", "is_file">>,
                         << Msg("processing_single_file", path),
                            Msg("content_preview", path) >>)
            ELSE
                Response(500, "error_processing_file", << name_of(path) >>,
                         <<"exists", "is_file">>,
                         << Msg("processing_single_file", path) >>)
        ELSE
            Response(400, "type_not_supported", << file_extension(path) >>,
                     <<"exists", "is_file">>, <<>>)
    ELSE IF is_dir(path) THEN
        Response(400, "is_a_directory", path,
                 <<"exists", "is_file", "is_dir">>, <<>>)
    ELSE
        Response(400, "not_valid_type", path,
                 <<"exists", "is_file", "is_dir">>, <<>>)

\* lines 59-121: the handler
process_file(file_path, outcome) ==
    LET decoded == unquote(file_path)
        g == traversal_guard(decoded)
    IN  IF g.status # 0 THEN g ELSE classify_file(decoded, outcome)

\* "%2E%2E": a ".." that reaches the handler still encoded
EncDotDot == <<"%", "2", "E", "%", "2", "E">>

EncDetourPaths == { IntendedRoot \o << EncDotDot >> \o q : q \in DOMAIN fs }

ProcessFile ==
    \E p \in InputPaths \cup DetourPaths \cup EncDetourPaths,
       o \in Outcomes \ {"IOError"} :
        /\ pc = "setup"
        /\ surface' = "process_file"
        /\ input_path' = p
        /\ preview' = o
        /\ LET r == process_file(p, o)
           IN  /\ status' = r.status
               /\ body' = r.body
               /\ stat_calls' = r.stat_calls
               /\ out' = r.out
        /\ pc' = "done"
        /\ UNCHANGED << fs, all_found_files, files_to_process, idx, open_file,
                        attempts, closed, failed, ext_name, ext_result >>

-----------------------------------------------------------------------------
(* HTTP: GET /process-folder.                                              *)

\* a local name that was annotated and never assigned
Unbound == "UNBOUND"

\* files_to_process = []
folder_accumulator_empty_list == <<>>

\* line 131: files_to_process: pathlib.Path
folder_accumulator == Unbound

\* lines 142-148: the filter loop over the found files, from an
\* accumulator acc; a use of an unbound acc raises UnboundLocalError and
\* ends the loop
RECURSIVE folder_filter(_, _, _)
folder_filter(acc, found, printed) ==
    IF found = <<>> THEN [acc |-> acc, out |-> printed, raised |-> FALSE]
    ELSE IF is_supported(Head(found)) THEN
        IF acc = Unbound
        THEN [acc |-> acc, out |-> printed, raised |-> TRUE]
        ELSE folder_filter(Append(acc, Head(found)), Tail(found), printed)
    ELSE folder_filter(acc, Tail(found),
                       Append(printed, Msg("skipping", Head(found))))

\* lines 157-165: hash_file on each file of a list: one report per file,
\* whatever its outcome
hash_files(files, outcome) ==
    [i \in 1..Len(files) |-> hash_report(files[i], outcome[i])]

\* the framework's answer to an exception the handler does not catch
InternalServerError(printed) ==
    [status |-> 500, body |-> Msg("internal_server_error", <<>>),
     out |-> printed, hashed |-> <<>>]

\* the framework's answer to a handler that returns a value
Returned(kind, path, printed, hashed) ==
    [status |-> 200, body |-> Msg(kind, path), out |-> printed, hashed |-> hashed]

\* how many files the handler hands to hash_file on a path
folder_hash_count(folder_path) ==
    IF ~is_dir(folder_path) THEN 0
    ELSE LET f == folder_filter(folder_accumulator,
                                get_all_files_recursive(folder_path), <<>>)
         IN  IF f.raised \/ f.acc = Unbound THEN 0 ELSE Len(f.acc)

\* lines 123-155: the handler; outcome[i] is the outcome of the i-th
\* hash_file call
process_folder(folder_path, outcome) ==
    IF ~exists(folder_path) THEN
        Returned("null", <<>>, << Msg("path_not_found", folder_path) >>, <<>>)
    ELSE IF is_file(folder_path) THEN
        Returned("empty_object", <<>>, << Msg("is_not_a_file", folder_path) >>, <<>>)
    ELSE IF is_dir(folder_path) THEN
        LET first == << Msg("processing_folder", folder_path) >>
            f == folder_filter(folder_accumulator,
                               get_all_files_recursive(folder_path), first)
        IN  IF f.raised \/ f.acc = Unbound THEN InternalServerError(f.out)
            ELSE Returned("processing_folder_at", folder_path,
                          f.out \o hash_files(f.acc, outcome), f.acc)
    ELSE
        Returned("null", <<>>, << Msg("is_not_a_type", folder_path) >>, <<>>)

ProcessFolder ==
    \E p \in InputPaths :
    \E outcome \in [1..folder_hash_count(p) -> Outcomes] :
        /\ pc = "setup"
        /\ surface' = "process_folder"
        /\ input_path' = p
        /\ LET r == process_folder(p, outcome)
           IN  /\ status' = r.status
               /\ body' = r.body
               /\ out' = r.out
               /\ attempts' = r.hashed
               /\ failed' = { r.hashed[i] : i \in { j \in 1..Len(r.hashed) :
                                                    outcome[j] # "ok" } }
        /\ pc' = "done"
        /\ UNCHANGED << fs, all_found_files, files_to_process, idx, open_file,
                        stat_calls, ext_name, ext_result, closed, preview >>

-----------------------------------------------------------------------------
(* Extension classification on its own.                                    *)

ExtAlphabet == { ".", "m", "M", "d", "D", "x" }

Names == UNION { [1..n -> ExtAlphabet] : n \in 1..MaxNameLen }

\* lines 53-55 / 69-70: the extension of a file name and the allow-list test
ExtClassify ==
    /\ pc = "ext"
    /\ ext_result' = << file_extension(<< ext_name >>), is_supported(<< ext_name >>) >>
    /\ pc' = "done"
    /\ UNCHANGED << fs, surface, input_path, all_found_files, files_to_process,
                    idx, open_file, out, attempts, closed, failed, status, body,
                    stat_calls, ext_name, preview >>

-----------------------------------------------------------------------------
(* Specifications.                                                         *)

Init ==
    /\ fs = (<<>> :> "dir")
    /\ pc = "setup"
    /\ surface = "none"
    /\ input_path = <<>>
    /\ all_found_files = <<>>
    /\ files_to_process = <<>>
    /\ idx = 1
    /\ open_file = {}
    /\ out = <<>>
    /\ attempts = <<>>
    /\ closed = <<>>
    /\ failed = {}
    /\ status = 0
    /\ body = NoBody
    /\ stat_calls = <<>>
    /\ preview = "none"
    /\ ext_name = <<>>
    /\ ext_result = <<>>

Next ==
    \/ Mkdir
    \/ CreateFile
    \/ Mknod
    \/ MainClassify
    \/ MainDiscover
    \/ MainFilter
    \/ HashOpen
    \/ HashOpenFails
    \/ HashRead
    \/ HashReadFails
    \/ MainReturn
    \/ ProcessFile
    \/ ProcessFolder

Spec == Init /\ [][Next]_vars

InitExt ==
    /\ fs = (<<>> :> "dir")
    /\ pc = "ext"
    /\ surface = "ext"
    /\ input_path = <<>>
    /\ all_found_files = <<>>
    /\ files_to_process = <<>>
    /\ idx = 1
    /\ open_file = {}
    /\ out = <<>>
    /\ attempts = <<>>
    /\ closed = <<>>
    /\ failed = {}
    /\ status = 0
    /\ body = NoBody
    /\ stat_calls = <<>>
    /\ preview = "none"
    /\ ext_name \in Names
    /\ ext_result = <<>>

NextExt == ExtClassify

SpecExt == InitExt /\ [][NextExt]_vars

\* the steps main() takes once it has classified its input
MainStep ==
    \/ MainDiscover
    \/ MainFilter
    \/ HashOpen
    \/ HashOpenFails
    \/ HashRead
    \/ HashReadFails
    \/ MainReturn

\* the command-line tool alone, in the environment that creates the entries
NextMain ==
    \/ Mkdir
    \/ CreateFile
    \/ Mknod
    \/ MainClassify
    \/ MainDiscover
    \/ MainFilter
    \/ HashOpen
    \/ HashOpenFails
    \/ HashRead
    \/ HashReadFails
    \/ MainReturn

\* main() is one thread of blocking calls, each of which returns: a run
\* that can take a step takes one
SpecFair == Init /\ [][NextMain]_vars /\ WF_vars(MainStep)

-----------------------------------------------------------------------------
(* Properties.                                                             *)

Range(q) == { q[i] : i \in 1..Len(q) }

NoDuplicates(q) == \A i, j \in 1..Len(q) : q[i] = q[j] => i = j

\* the entries below directory d, at any depth
Under(d) == { q \in DOMAIN fs : q # d /\ IsPrefix(d, q) }

RegularFilesUnder(d) == { q \in Under(d) : fs[q] = "file" }

\* the text after the final '.' of a name, lowercased; empty for a name
\* without a dot and for a dot-file without a further dot
ExtensionByRule(name) ==
    LET dots == { i \in 1..Len(name) : name[i] = "." }
    IN  IF dots = {} \/ dots = {1} THEN <<>>
        ELSE LET last == CHOOSE i \in dots : \A j \in dots : j <= i
             IN  lower(SubSeq(name, last + 1, Len(name)))

SupportedFilesUnder(d) ==
    { q \in RegularFilesUnder(d) : ExtensionByRule(name_of(q)) \in SUPPORTED_EXTENSIONS }

ErrorKinds == { "error_processing", "unexpected_error" }

\* the per-file reports of the hashing loop, in the order printed
Reports == SelectSeq(out, LAMBDA m : m.kind \in ErrorKinds \cup {"hash"})

CliHashing == surface = "cli" /\ files_to_process # <<>>

\* C1: in a CLI batch every file of the list is attempted exactly once and
\* in order, a file whose open or read fails gets an error report naming
\* it, the files after it are still attempted, and the run goes on to its
\* normal end: the loop is never stuck and never left early.
C1_BatchSurvivesFailures ==
    CliHashing =>
        /\ \A f \in failed :
               \E i \in 1..Len(Reports) :
                   Reports[i].path = f /\ Reports[i].kind \in ErrorKinds
        /\ pc = "hash" =>
               /\ attempts = SubSeq(files_to_process, 1, Len(attempts))
               /\ ENABLED (HashOpen \/ HashOpenFails \/ HashRead
                           \/ HashReadFails \/ MainReturn)
        /\ pc = "done" =>
               /\ attempts = files_to_process
               /\ Len(Reports) = Len(files_to_process)
               /\ \A i \in 1..Len(Reports) :
                      /\ Reports[i].path = files_to_process[i]
                      /\ Reports[i].kind \in ErrorKinds
                             <=> files_to_process[i] \in failed

\* C1 witness: a batch has ended in which the first file failed and a
\* later file was hashed
C1_Witness ==
    /\ CliHashing
    /\ pc = "done"
    /\ Len(files_to_process) >= 2
    /\ files_to_process[1] \in failed
    /\ files_to_process[2] \notin failed
    /\ Reports[2].kind = "hash"

HasDotDotComponent(path) == \E i \in 1..Len(path) : path[i] = DotDot

EscapesRoot(path) ==
    HasDotDotComponent(path) /\ ~IsPrefix(IntendedRoot, resolve(path))

\* C2: GET /process-file/ answers 400 to every file_path that has a ".."
\* component and resolves outside the intended root, and does so before
\* any existence check is made.
C2_TraversalRejected ==
    (surface = "process_file" /\ pc = "done" /\ EscapesRoot(input_path)) =>
        (status = 400 /\ stat_calls = <<>>)

\* C3: GET /process-file/ on a path that passes the traversal guard
\* answers with the one status its classification fixes: 404 absent, 400
\* directory, 400 neither, 400 unsupported file, 500 supported file whose
\* preview raises, 200 'processed successfully' otherwise and only then.
C3_StatusByClassification ==
    LET p == unquote(input_path)
        k == stat(p)
        sup == ExtensionByRule(name_of(p)) \in SUPPORTED_EXTENSIONS
    IN  (surface = "process_file" /\ pc = "done" /\ ~has_dotdot(str(resolve(p)))) =>
            /\ k = "absent" => status = 404
            /\ k = "dir" => status = 400
            /\ k = "other" => status = 400
            /\ (k = "file" /\ ~sup) => status = 400
            /\ (k = "file" /\ sup /\ preview # "ok") => status = 500
            /\ (k = "file" /\ sup /\ preview = "ok") =>
                   (status = 200 /\ body.kind = "processed_successfully")
            /\ status = 200 => (k = "file" /\ sup /\ preview = "ok")
            /\ status \in {200, 400, 404, 500}

\* C3 witness: a missing path with an unsupported extension was answered
\* 404
C3_Witness ==
    /\ surface = "process_file"
    /\ pc = "done"
    /\ ~has_dotdot(str(resolve(unquote(input_path))))
    /\ name_of(input_path) = N_b_exe
    /\ stat(input_path) = "absent"
    /\ status = 404

CliFolder == surface = "cli" /\ input_path \in DOMAIN fs /\ fs[input_path] = "dir"

\* C4: in CLI folder mode the files a hash is attempted for are exactly
\* the regular files below the folder whose lowercased extension is in the
\* allow-list, none of them twice; the other files get no message and do
\* not end the run.
C4_FolderHashesExactlySupported ==
    CliFolder =>
        /\ Range(attempts) \subseteq SupportedFilesUnder(input_path)
        /\ NoDuplicates(attempts)
        /\ \A i \in 1..Len(out) :
               out[i].path \notin
                   RegularFilesUnder(input_path) \ SupportedFilesUnder(input_path)
        /\ pc = "done" => Range(attempts) = SupportedFilesUnder(input_path)
        /\ pc \in {"discover", "filter"} => ENABLED (MainDiscover \/ MainFilter)

\* C4 witness: a folder holding a.docx and b.exe, and a.docx alone hashed
C4_Witness ==
    /\ CliFolder
    /\ pc = "done"
    /\ Append(input_path, N_b_exe) \in RegularFilesUnder(input_path)
    /\ attempts = << Append(input_path, N_a_docx) >>
    /\ Len(Reports) = 1

ClassificationKinds ==
    { "path_not_found", "not_file_or_directory", "type_not_supported",
      "processing_single_file", "processing_folder" }

\* C5: a CLI run is classified once and ends in one outcome: a missing
\* path is reported not-found whatever its extension, an entry that is
\* neither file nor directory as an error naming it, a file with an
\* unsupported extension as unsupported, all three with no hash computed;
\* a file with a supported extension is hashed exactly once.
C5_SinglePathOutcome ==
    LET k == stat(input_path)
        sup == ExtensionByRule(name_of(input_path)) \in SUPPORTED_EXTENSIONS
    IN  surface = "cli" =>
            /\ Len(SelectSeq(out, LAMBDA m : m.kind \in ClassificationKinds)) = 1
            /\ k = "absent" =>
                   (pc = "done" /\ attempts = <<>>
                    /\ out = << Msg("path_not_found", input_path) >>)
            /\ k = "other" =>
                   (pc = "done" /\ attempts = <<>>
                    /\ out = << Msg("not_file_or_directory", input_path) >>)
            /\ (k = "file" /\ ~sup) =>
                   (pc = "done" /\ attempts = <<>>
                    /\ out = << Msg("type_not_supported",
                                    << ExtensionByRule(name_of(input_path)) >>) >>)
            /\ (k = "file" /\ sup) =>
                   /\ files_to_process = << input_path >>
                   /\ pc = "done" =>
                          (attempts = << input_path >> /\ Len(Reports) = 1)

\* C5 witness: a missing path with an unsupported extension was reported
\* not-found
C5_Witness ==
    /\ surface = "cli"
    /\ pc = "done"
    /\ stat(input_path) = "absent"
    /\ name_of(input_path) = N_b_exe
    /\ out = << Msg("path_not_found", input_path) >>

NoSupportedFile == CliFolder /\ SupportedFilesUnder(input_path) = {}

\* C6: the CLI on a directory with no file, or with unsupported files
\* only (at any depth), reports a warning, computes no hash, never enters
\* the hashing phase, and ends without an error.
C6_EmptyFolderWarns ==
    NoSupportedFile =>
        /\ pc # "hash"
        /\ attempts = <<>>
        /\ Reports = <<>>
        /\ \A i \in 1..Len(out) : out[i].kind \in {"processing_folder", "no_supported_files"}
        /\ pc \in {"discover", "filter"} => ENABLED (MainDiscover \/ MainFilter)
        /\ pc = "done" =>
               out = << Msg("processing_folder", input_path),
                        Msg("no_supported_files", input_path) >>

\* C6 witness: a run has ended on a folder whose only files are
\* unsupported ones below a subdirectory
C6_Witness ==
    /\ NoSupportedFile
    /\ pc = "done"
    /\ \E q \in RegularFilesUnder(input_path) : Len(q) >= Len(input_path) + 2
    /\ out[Len(out)] = Msg("no_supported_files", input_path)

Discovered == CliFolder /\ pc \in {"filter", "hash", "done"}

\* C7: get_all_files_recursive(D) returns every regular file reachable
\* from D through subdirectories, no directory, no entry that is not a
\* regular file, and no path twice.
C7_DiscoveryExact ==
    Discovered =>
        /\ Range(all_found_files) = RegularFilesUnder(input_path)
        /\ \A i \in 1..Len(all_found_files) : fs[all_found_files[i]] = "file"
        /\ NoDuplicates(all_found_files)

\* C7 witness: discovery ran on a directory holding a subdirectory with a
\* file in it and an entry that is not a regular file
C7_Witness ==
    /\ Discovered
    /\ \E q \in Range(all_found_files) : Len(q) >= Len(input_path) + 2
    /\ \E q \in Under(input_path) : fs[q] = "other"

\* the names that differ from a name in the case of their letters only
RECURSIVE CaseVariants(_)
CaseVariants(name) ==
    IF name = <<>> THEN { <<>> }
    ELSE { <<c>> \o v : c \in { d \in ExtAlphabet : LowerChar(d) = LowerChar(Head(name)) },
                        v \in CaseVariants(Tail(name)) }

\* C8: the extension tested against the allow-list is the lowercased text
\* after the final '.' of the name, empty for a name without a dot and
\* for a dot-file without a further dot; a name is accepted iff that
\* extension is in SUPPORTED_EXTENSIONS, whatever the case of its letters,
\* and an empty extension is rejected.
C8_ExtensionRule ==
    (surface = "ext" /\ pc = "done") =>
        /\ ext_result[1] = ExtensionByRule(ext_name)
        /\ ext_result[2] <=> (ExtensionByRule(ext_name) \in SUPPORTED_EXTENSIONS)
        /\ ext_result[1] = <<>> => ~ext_result[2]
        /\ \A n \in CaseVariants(ext_name) :
               ext_result[2] <=> is_supported(<< n >>)

\* C8 witness: a name with a mixed-case supported extension was accepted
C8_Witness ==
    /\ surface = "ext"
    /\ pc = "done"
    /\ ext_name = <<"x", ".", "M", "d">>
    /\ ext_result = << <<"m", "d">>, TRUE >>

FolderOnDirectory ==
    surface = "process_folder" /\ pc = "done" /\ is_dir(input_path)

\* C9: GET /process-folder on an existing directory fails on the unbound
\* files_to_process before any file is hashed: hash_file is never called
\* and the 'Processing folder at' response is never given.
C9_FolderEndpointFails ==
    FolderOnDirectory =>
        /\ status = 500
        /\ body.kind = "internal_server_error"
        /\ attempts = <<>>
        /\ Reports = <<>>

\* C9 witness: the endpoint was called on a directory holding a supported
\* file and answered 500
C9_Witness ==
    /\ FolderOnDirectory
    /\ SupportedFilesUnder(input_path) # {}
    /\ status = 500

\* C10: GET /process-folder answers 404 to a folder_path that does not
\* exist and 400 to one that exists and is not a directory; neither is
\* answered 200.
C10_FolderErrorMapping ==
    (surface = "process_folder" /\ pc = "done") =>
        /\ ~exists(input_path) => status = 404
        /\ (exists(input_path) /\ ~is_dir(input_path)) => status = 400

\* what holds of the files of a CLI run in every state: nothing is opened
\* before the filtered list is complete, at most one file is open, it is
\* the file the loop stands on, the files opened so far are the start of
\* the filtered list, and every file opened before the current one was
\* closed again or failed to open
SequentialState ==
    surface = "cli" =>
        /\ pc \in {"setup", "discover", "filter"} =>
               (attempts = <<>> /\ open_file = {} /\ closed = <<>>)
        /\ Cardinality(open_file) <= 1
        /\ attempts = SubSeq(files_to_process, 1, Len(attempts))
        /\ open_file # {} =>
               /\ pc = "hash"
               /\ idx <= Len(files_to_process)
               /\ open_file = { files_to_process[idx] }
               /\ Len(attempts) = idx
        /\ open_file = {} => Len(attempts) = idx - 1
        /\ Range(closed) \cup open_file \subseteq Range(attempts)
        /\ (Range(attempts) \ open_file) \ Range(closed) \subseteq failed
        /\ pc = "done" => (open_file = {} /\ attempts = files_to_process)

\* what holds of every step of a CLI run: the filtered list is fixed once
\* the hashing phase has begun, a file is opened only while none is open,
\* and an open file is closed by the step that ends its read, whether the
\* read succeeded or failed
SequentialStep ==
    /\ pc = "hash" => files_to_process' = files_to_process
    /\ attempts' # attempts =>
           (open_file = {} /\ attempts' = Append(attempts, files_to_process[idx]))
    /\ open_file # {} =>
           \/ UNCHANGED << open_file, closed, idx >>
           \/ /\ open_file' = {}
              /\ closed' = closed \o SetToSeq(open_file)
              /\ idx' = idx + 1

\* C11: CLI hashing is sequential and two-phased: no file is opened before
\* discovery and filtering have finished, at most one file is open at any
\* moment, each file is opened, read and closed (also when its read fails)
\* before the next is opened, files are taken in the order of the filtered
\* list, and the run always ends after the last file.
C11_SequentialTwoPhase ==
    /\ [] SequentialState
    /\ [][SequentialStep]_vars
    /\ (surface = "cli") ~> (pc = "done")

\* C11 witness: a run has ended in which the read of the first file failed
\* after it was opened, and the second file was opened, read and closed
C11_Witness ==
    /\ surface = "cli"
    /\ pc = "done"
    /\ Len(files_to_process) >= 2
    /\ Len(closed) >= 2
    /\ closed[1] = files_to_process[1]
    /\ closed[1] \in failed
    /\ closed[2] = files_to_process[2]
    /\ closed[2] \notin failed

====
